---- MODULE Spec2Model ----
(***************************************************************************)
(* A model of haystack/__init__.py: the two collections SuffixArrayMap and *)
(* RadixTreeMap, their insert and get methods, and the Python operations   *)
(* these methods rest on (str slicing, str.split, str.startswith, str      *)
(* comparison, bisect.insort_left, attribute and name lookup).             *)
(*                                                                         *)
(* A Python str is a sequence of one-character strings.  A Python call     *)
(* that raises is a record whose exc field names the exception; exc = ""   *)
(* is a normal return.  Python indexes from 0, TLA+ sequences from 1: the  *)
(* model keeps Python's numbers and adds 1 where it reads a sequence.      *)
(* The module is Python 2 code (infh.next(), `/` on list indexes): `/` on  *)
(* ints is floor division.                                                 *)
(***************************************************************************)
EXTENDS Integers, Sequences, FiniteSets

VARIABLES
    sa_items,   \* SuffixArrayMap.items
    sa_keys,    \* SuffixArrayMap.keys
    sa_index,   \* SuffixArrayMap.index: a list of SuffixArrayNode
    rt_items,   \* RadixTreeMap.items
    rt_keys,    \* RadixTreeMap.keys
    rt_index,   \* RadixTreeMap.index: the tree, a function from a node's path to the node
    rt_calls,   \* history: the (key, item) pairs RadixTreeMap.insert was called with
    ret         \* the last call: its method, arguments and outcome

vars == <<sa_items, sa_keys, sa_index, rt_items, rt_keys, rt_index, rt_calls, ret>>

----------------------------------------------------------------------------
(* Bounds of the model and the inputs the calls draw from.  An item is a   *)
(* str: SuffixArrayMap.get calls startswith on self.items[...] and         *)
(* compares it with the pattern.  MaxSAInserts and MaxRTCalls bound the    *)
(* number of insert calls on each container.                               *)

MaxSAInserts == 2
MaxRTCalls == 2

Items == { <<"x">>, <<"y">> }
SAKeys == { <<"a">>, <<"a", "b">>, <<"b", "a", "b">> }
SAPatterns == { <<"a">>, <<"a", "b">>, <<"z">> }
RTKeys == { <<"a">>, <<"a", "/", "b">> }
RTQueries == { <<"a">>, <<"a", "/", "b">>, <<"a", "/", "b", "/", "c">>, <<"z">> }

----------------------------------------------------------------------------
(* Python str operations.                                                  *)

\* ord(c) of the characters the model uses.
Ord(c) ==
    CASE c = "$" -> 36 [] c = "/" -> 47
      [] c = "0" -> 48 [] c = "1" -> 49 [] c = "2" -> 50 [] c = "3" -> 51
      [] c = "4" -> 52 [] c = "5" -> 53 [] c = "6" -> 54 [] c = "7" -> 55
      [] c = "8" -> 56 [] c = "9" -> 57
      [] c = "a" -> 97 [] c = "b" -> 98 [] c = "c" -> 99
      [] c = "x" -> 120 [] c = "y" -> 121 [] c = "z" -> 122

\* s < t on str: lexicographic by code point, a proper prefix is smaller.
RECURSIVE StrLt(_, _)
StrLt(s, t) ==
    IF Len(t) = 0 THEN FALSE
    ELSE IF Len(s) = 0 THEN TRUE
    ELSE IF s[1] = t[1] THEN StrLt(Tail(s), Tail(t))
    ELSE Ord(s[1]) < Ord(t[1])

\* s.startswith(p)
StartsWith(s, p) == Len(p) <= Len(s) /\ SubSeq(s, 1, Len(p)) = p

\* s[i:] for 0 <= i
Slice(s, i) == SubSeq(s, i + 1, Len(s))

\* str(n) for n >= 0: the decimal digits of n.
Digit(d) ==
    CASE d = 0 -> "0" [] d = 1 -> "1" [] d = 2 -> "2" [] d = 3 -> "3"
      [] d = 4 -> "4" [] d = 5 -> "5" [] d = 6 -> "6" [] d = 7 -> "7"
      [] d = 8 -> "8" [] d = 9 -> "9"

RECURSIVE Str(_)
Str(n) == IF n < 10 THEN <<Digit(n)>> ELSE Str(n \div 10) \o <<Digit(n % 10)>>

\* s.split("/"): the segments between the delimiters, empty ones included;
\* never an empty list ("".split("/") is [""]).
RECURSIVE SplitFrom(_, _, _)
SplitFrom(s, i, cur) ==
    IF i > Len(s) THEN <<cur>>
    ELSE IF s[i] = "/" THEN <<cur>> \o SplitFrom(s, i + 1, <<>>)
    ELSE SplitFrom(s, i + 1, Append(cur, s[i]))

Split(s) == SplitFrom(s, 1, <<>>)

\* lst[low:high] of a list: the bounds are clamped to the list.
ListSlice(lst, low, high) ==
    LET lo == IF low > Len(lst) THEN Len(lst) ELSE low
        hi == IF high > Len(lst) THEN Len(lst) ELSE high
    IN SubSeq(lst, lo + 1, hi)

----------------------------------------------------------------------------
(* The outcome of a call: exc is the exception raised ("" for none); kind  *)
(* is "None", "item" (val holds the one item) or "list" (val is the list). *)

Returned(kind, val) == [exc |-> "", kind |-> kind, val |-> val]
Raised(exc) == [exc |-> exc, kind |-> "raise", val |-> <<>>]
ReturnNone == Returned("None", <<>>)

----------------------------------------------------------------------------
(* SuffixArrayNode                                                         *)

SuffixArrayNode(item_id, token, key_offset) ==
    [item_id |-> item_id, key_offset |-> key_offset, token |-> token]

\* The method SuffixArrayNode.cmp(self, other, op): op applied to the two tokens.
\* No code path calls it: the rich comparisons below name the global cmp.
NodeCmp(self, other, op) ==
    CASE op = "lt" -> IF StrLt(self.token, other.token) THEN "True" ELSE "False"
      [] op = "gt" -> IF StrLt(other.token, self.token) THEN "True" ELSE "False"
      [] op = "eq" -> IF self.token = other.token THEN "True" ELSE "False"
      [] op = "le" -> IF StrLt(other.token, self.token) THEN "False" ELSE "True"
      [] op = "ge" -> IF StrLt(self.token, other.token) THEN "False" ELSE "True"

\* A comparison that reaches the method, with the wrong operator.
Node__lt__Gt(self, other) == NodeCmp(self, other, "gt")

\* SuffixArrayNode.__lt__: `return cmp(self, other, operator.lt)`.  Inside a
\* method body the name cmp is looked up in the module's globals and then the
\* builtins, never in the class: it is the builtin cmp(x, y), called here with
\* three arguments, which raises TypeError (where there is no builtin cmp the
\* lookup raises NameError: the comparison raises either way).  The outcome is
\* "True", "False" or the exception's name.
Node__lt__(self, other) == "TypeError"

----------------------------------------------------------------------------
(* bisect.insort_left(a, x): binary search for the leftmost position at    *)
(* which x keeps a sorted, comparing with a[mid] < x, then a.insert.       *)

\* The position found, or -1 when a comparison raised.
RECURSIVE BisectLeft(_, _, _, _)
BisectLeft(a, x, lo, hi) ==
    IF lo < hi
    THEN LET mid == (lo + hi) \div 2
             lt == Node__lt__(a[mid + 1], x)
         IN IF lt = "TypeError" THEN -1
            ELSE IF lt = "True" THEN BisectLeft(a, x, mid + 1, hi)
            ELSE BisectLeft(a, x, lo, mid)
    ELSE lo

InsortLeft(a, x) ==
    LET lo == BisectLeft(a, x, 0, Len(a))
    IN IF lo < 0 THEN [exc |-> "TypeError", list |-> a]
       ELSE [exc |-> "",
             list |-> SubSeq(a, 1, lo) \o <<x>> \o SubSeq(a, lo + 1, Len(a))]

----------------------------------------------------------------------------
(* SuffixArrayMap.insert                                                   *)

\* An id one past the arena's next slot.
NewItemIdOffByOne(items) == Len(items) + 1

\* item_id = len(self.items), read before the item is appended.
NewItemId(items) == Len(items)

\* The loop over the suffixes key[i:], from i on.  An exception leaves the
\* loop with the entries inserted so far still in the index.
RECURSIVE InsertSuffixes(_, _, _, _)
InsertSuffixes(index, key, item_id, i) ==
    IF i >= Len(key) THEN [exc |-> "", list |-> index]
    ELSE LET suffix == Slice(key, i) \o <<"$">> \o Str(item_id)
             node == SuffixArrayNode(item_id, suffix, i)
             r == InsortLeft(index, node)
         IN IF r.exc # "" THEN r
            ELSE InsertSuffixes(r.list, key, item_id, i + 1)

----------------------------------------------------------------------------
(* SuffixArrayMap.get(prefix).  All divisions are on non-negative ints.    *)

\* The first loop: a binary search over the index for an entry whose token
\* starts with prefix.  It ends, by break or by low >= high, with <<low, high>>.
RECURSIVE FindMatch(_, _, _, _)
FindMatch(index, prefix, low, high) ==
    IF low < high
    THEN LET mid == (high + low) \div 2
             node == index[mid + 1]
         IN IF StartsWith(node.token, prefix) THEN <<low, high>>
            ELSE IF StrLt(node.token, prefix)
                 THEN FindMatch(index, prefix, mid + 1, high)
            \* node.token > prefix: a token equal to prefix starts with it
            ELSE FindMatch(index, prefix, low, mid)
    ELSE <<low, high>>

\* The second loop, over self.items: `while low < h`, comparing prefix > items[m].
RECURSIVE LowerLoop(_, _, _, _)
LowerLoop(items, prefix, low, h) ==
    IF low < h
    THEN LET m == (h + low) \div 2
             node == items[m + 1]
         IN IF StrLt(node, prefix) THEN LowerLoop(items, prefix, m + 1, h)
            ELSE LowerLoop(items, prefix, low, m)
    ELSE low

\* The third loop, over self.items: `while l < high`.  items[m] past the end
\* of the arena raises IndexError.
RECURSIVE UpperLoop(_, _, _, _)
UpperLoop(items, prefix, l, high) ==
    IF l < high
    THEN LET m == (l + high + 1) \div 2
         IN IF m >= Len(items) THEN [exc |-> "IndexError", high |-> high]
            ELSE IF StartsWith(items[m + 1], prefix)
                 THEN UpperLoop(items, prefix, m, high)
            ELSE UpperLoop(items, prefix, l, m - 1)
    ELSE [exc |-> "", high |-> high]

\* Lines 88 to 112, from the first loop's <<low, high>>.
RangeOf(items, prefix, low0, high0) ==
    LET mid == (high0 + low0) \div 2
    IN IF mid >= Len(items) THEN Raised("IndexError")
       ELSE IF StartsWith(items[mid + 1], prefix)
       THEN LET low1 == LowerLoop(items, prefix, low0, mid - 1)
                low == IF ~StartsWith(items[low1 + 1], prefix) THEN mid ELSE low1
                up == UpperLoop(items, prefix, mid + 1, high0)
            IN IF up.exc # "" THEN Raised(up.exc)
               ELSE IF up.high >= Len(items) THEN Raised("IndexError")
               ELSE LET high == IF ~StartsWith(items[up.high + 1], prefix)
                                THEN mid ELSE up.high
                    IN Returned("list", ListSlice(items, low, high + 1))
       ELSE ReturnNone

SA_get(items, index, prefix) ==
    LET low == 0
        high == Len(index) - 1
    IN IF high <= low THEN ReturnNone
       ELSE LET lh == FindMatch(index, prefix, low, high)
            IN RangeOf(items, prefix, lh[1], lh[2])

----------------------------------------------------------------------------
(* RadixTreeNode and the tree.  A node is named by its path: the root's    *)
(* token '' and then the tokens of the children dicts that lead to it;     *)
(* node.children holds token exactly when the path extended by token names *)
(* a node.                                                                 *)

\* None, where the code holds an Option<usize>.
NoneVal == -1

\* RadixTreeNode(token): item_id is None whatever the argument; no children.
RadixTreeNode(token) == [token |-> token, item_id |-> NoneVal, key_offset |-> NoneVal]

\* self.index, the root RadixTreeNode('')
Root == << <<>> >>

\* token in node.children
HasChild(index, node, token) == (node \o <<token>>) \in DOMAIN index

\* node.children[token]
Child(node, token) == node \o <<token>>

\* node.children[token] = RadixTreeNode(token)
AddChild(index, node, token) ==
    [p \in DOMAIN index \cup {Child(node, token)} |->
        IF p = Child(node, token) THEN RadixTreeNode(token) ELSE index[p]]

----------------------------------------------------------------------------
(* RadixTreeMap.insert                                                     *)

\* key.split('/').enumerate(): split returns a list, and a list has no
\* attribute enumerate: the attribute lookup raises AttributeError.
ListEnumerate(lst) == [exc |-> "AttributeError", pairs |-> <<>>]

\* The loop body over the (key_offset, token) pairs from i on.  current is
\* never reassigned: every token is looked up, or created, in the children of
\* the node the loop started at.
RECURSIVE InsertNodes(_, _, _, _)
InsertNodes(index, current, pairs, i) ==
    IF i > Len(pairs) THEN index
    ELSE LET token == pairs[i][2]
         IN IF HasChild(index, current, token)
            THEN InsertNodes(index, current, pairs, i + 1)
            ELSE InsertNodes(AddChild(index, current, token), current, pairs, i + 1)

\* Lines 134 to 156 once the pairs are there: node and key_offset are those
\* of the loop's last round.  `if node.item_id:` is false for None and for 0;
\* with item_id 0 neither branch runs.
InsertTerminal(index, items, keys, key, item, pairs) ==
    LET current == Root
        index1 == InsertNodes(index, current, pairs, 1)
        last == pairs[Len(pairs)]
        key_offset == last[1]
        node == Child(current, last[2])
        id == index1[node].item_id
    IN IF id # NoneVal /\ id # 0
       THEN [exc |-> "", index |-> index1,
             items |-> [items EXCEPT ![id + 1] = item],
             keys |-> [keys EXCEPT ![id + 1] = key]]
       ELSE IF id = NoneVal
       THEN [exc |-> "",
             index |-> [index1 EXCEPT ![node] =
                          [@ EXCEPT !.item_id = Len(items), !.key_offset = key_offset]],
             items |-> Append(items, item),
             keys |-> Append(keys, key)]
       ELSE [exc |-> "", index |-> index1, items |-> items, keys |-> keys]

RT_insert(index, items, keys, key, item) ==
    LET e == ListEnumerate(Split(key))
    IN IF e.exc # ""
       THEN [exc |-> e.exc, index |-> index, items |-> items, keys |-> keys]
       ELSE InsertTerminal(index, items, keys, key, item, e.pairs)

----------------------------------------------------------------------------
(* RadixTreeMap.get(prefix)                                                *)

\* The loop over the tokens from i on: best_match is the node the step into
\* a child was taken from.
RECURSIVE Descend(_, _, _, _, _)
Descend(index, tokens, i, node, best_match) ==
    IF i > Len(tokens) THEN best_match
    ELSE IF HasChild(index, node, tokens[i])
    THEN Descend(index, tokens, i + 1, Child(node, tokens[i]),
                 [some |-> TRUE, node |-> node])
    ELSE best_match

\* self.items[None] raises TypeError, an id past the arena IndexError.
RT_get(index, items, prefix) ==
    LET best_match == Descend(index, Split(prefix), 1, Root,
                              [some |-> FALSE, node |-> Root])
    IN IF ~best_match.some THEN ReturnNone
       ELSE LET id == index[best_match.node].item_id
            IN IF id = NoneVal THEN Raised("TypeError")
               ELSE IF id >= Len(items) THEN Raised("IndexError")
               ELSE Returned("item", <<items[id + 1]>>)

----------------------------------------------------------------------------
(* The calls.  ret records the last call: op, the key or pattern, the item *)
(* (empty for a get), the outcome, pre = len(items) of the called          *)
(* container before the call, id = the item_id the call computed (NoneVal  *)
(* when it computed none) and rep = the call repeats the call before it.   *)

Call(op, key, item, out, pre, id, rep) ==
    [op |-> op, key |-> key, item |-> item, exc |-> out.exc, kind |-> out.kind,
     val |-> out.val, pre |-> pre, id |-> id, rep |-> rep]

Init ==
    /\ sa_items = <<>>
    /\ sa_keys = <<>>
    /\ sa_index = <<>>
    /\ rt_items = <<>>
    /\ rt_keys = <<>>
    /\ rt_index = [p \in {Root} |-> RadixTreeNode(<<>>)]
    /\ rt_calls = <<>>
    /\ ret = Call("init", <<>>, <<>>, ReturnNone, 0, NoneVal, FALSE)

\* A get that drops the entries it has looked at.
SuffixArrayMapGetConsuming(prefix) ==
    /\ ret' = Call("sa_get", prefix, <<>>, SA_get(sa_items, sa_index, prefix),
                   Len(sa_items), NoneVal, ret.op = "sa_get" /\ ret.key = prefix)
    /\ sa_index' = <<>>
    /\ UNCHANGED <<sa_items, sa_keys, rt_items, rt_keys, rt_index, rt_calls>>

SuffixArrayMapInsert(key, item) ==
    /\ Len(sa_items) < MaxSAInserts
    /\ LET item_id == NewItemId(sa_items)
           r == InsertSuffixes(sa_index, key, item_id, 0)
       IN /\ sa_items' = Append(sa_items, item)
          /\ sa_keys' = Append(sa_keys, key)
          /\ sa_index' = r.list
          /\ ret' = Call("sa_insert", key, item,
                         IF r.exc = "" THEN ReturnNone ELSE Raised(r.exc),
                         Len(sa_items), item_id, FALSE)
    /\ UNCHANGED <<rt_items, rt_keys, rt_index, rt_calls>>

SuffixArrayMapGet(prefix) ==
    /\ ret' = Call("sa_get", prefix, <<>>, SA_get(sa_items, sa_index, prefix),
                   Len(sa_items), NoneVal, ret.op = "sa_get" /\ ret.key = prefix)
    /\ UNCHANGED <<sa_items, sa_keys, sa_index, rt_items, rt_keys, rt_index, rt_calls>>

RadixTreeMapInsert(key, item) ==
    /\ Len(rt_calls) < MaxRTCalls
    /\ LET r == RT_insert(rt_index, rt_items, rt_keys, key, item)
       IN /\ rt_index' = r.index
          /\ rt_items' = r.items
          /\ rt_keys' = r.keys
          /\ ret' = Call("rt_insert", key, item,
                         IF r.exc = "" THEN ReturnNone ELSE Raised(r.exc),
                         Len(rt_items), NoneVal, FALSE)
    /\ rt_calls' = Append(rt_calls, [key |-> key, item |-> item])
    /\ UNCHANGED <<sa_items, sa_keys, sa_index>>

RadixTreeMapGet(prefix) ==
    /\ ret' = Call("rt_get", prefix, <<>>, RT_get(rt_index, rt_items, prefix),
                   Len(rt_items), NoneVal, ret.op = "rt_get" /\ ret.key = prefix)
    /\ UNCHANGED <<sa_items, sa_keys, sa_index, rt_items, rt_keys, rt_index, rt_calls>>

Next ==
    \/ \E key \in SAKeys, item \in Items : SuffixArrayMapInsert(key, item)
    \/ \E prefix \in SAPatterns : SuffixArrayMapGet(prefix)
    \/ \E key \in RTKeys, item \in Items : RadixTreeMapInsert(key, item)
    \/ \E prefix \in RTQueries : RadixTreeMapGet(prefix)

Spec == Init /\ [][Next]_vars

----------------------------------------------------------------------------
(* What the claims speak of.                                               *)

\* a is a prefix of b, as sequences of segments
IsPrefix(a, b) == Len(a) <= Len(b) /\ SubSeq(b, 1, Len(a)) = a

\* pattern occurs in key: some suffix of key begins with pattern
Contains(key, pattern) ==
    \E o \in 0..(Len(key) - 1) : StartsWith(Slice(key, o), pattern)

\* how often v occurs in the list lst
Count(lst, v) == Cardinality({n \in 1..Len(lst) : lst[n] = v})

\* the calls of RadixTreeMap.insert whose key's segments are a prefix of query's
PrefixCalls(query) ==
    {i \in 1..Len(rt_calls) : IsPrefix(Split(rt_calls[i].key), Split(query))}

\* among calls, the latest call of the deepest key
DeepestLatest(calls) ==
    CHOOSE i \in calls : \A j \in calls :
        \/ Len(Split(rt_calls[j].key)) < Len(Split(rt_calls[i].key))
        \/ Len(Split(rt_calls[j].key)) = Len(Split(rt_calls[i].key)) /\ j <= i

\* the calls of RadixTreeMap.insert before the last one that gave the key k
EarlierCalls(k) == {i \in 1..(Len(rt_calls) - 1) : rt_calls[i].key = k}

Max(S) == CHOOSE i \in S : \A j \in S : j <= i

\* C1: RadixTreeMap.get(query) returns the item of the deepest key given to
\* insert whose segments are a prefix of the query's segments (the item given
\* last under that key), and None when no key given to insert is such a prefix.
C1_LongestPrefix ==
    ret.op = "rt_get" =>
        IF PrefixCalls(ret.key) = {}
        THEN ret.exc = "" /\ ret.kind = "None"
        ELSE /\ ret.kind = "item"
             /\ ret.val = <<rt_calls[DeepestLatest(PrefixCalls(ret.key))].item>>

\* C2: RadixTreeMap.get(k) of a key k given to insert returns the item given
\* last under k.
C2_ExactMatch ==
    (ret.op = "rt_get" /\ \E i \in 1..Len(rt_calls) : rt_calls[i].key = ret.key) =>
        /\ ret.kind = "item"
        /\ ret.val = <<rt_calls[Max({i \in 1..Len(rt_calls) :
                                        rt_calls[i].key = ret.key})].item>>

\* C3: RadixTreeMap.insert(k, B) of a key given before replaces the entry in
\* place, leaves len(items) and len(keys) as they were, keeps k stored once
\* and returns the old item; of a key not given before it appends one entry to
\* items and keys and returns None.
C3_Overwrite ==
    ret.op = "rt_insert" =>
        IF EarlierCalls(ret.key) = {}
        THEN /\ ret.exc = "" /\ ret.kind = "None"
             /\ Len(rt_items) = ret.pre + 1 /\ Len(rt_keys) = ret.pre + 1
             /\ rt_items[ret.pre + 1] = ret.item /\ rt_keys[ret.pre + 1] = ret.key
        ELSE /\ ret.kind = "item"
             /\ ret.val = <<rt_calls[Max(EarlierCalls(ret.key))].item>>
             /\ Len(rt_items) = ret.pre /\ Len(rt_keys) = ret.pre
             /\ Cardinality({j \in 1..Len(rt_keys) : rt_keys[j] = ret.key}) = 1
             /\ \A j \in 1..Len(rt_keys) : rt_keys[j] = ret.key => rt_items[j] = ret.item

\* C4: SuffixArrayMap.get(pattern) returns a list that holds the item of every
\* stored entry whose key contains pattern, once per entry, and nothing else.
C4_Substring ==
    ret.op = "sa_get" =>
        /\ ret.kind = "list"
        /\ \A v \in Items :
             Count(ret.val, v) =
                 Cardinality({i \in 1..Len(sa_items) :
                                 sa_items[i] = v /\ Contains(sa_keys[i], ret.key)})

\* C5: every insert, of a key stored before or not, adds an index entry for
\* each of its key's suffixes under its own item_id, and get of a stored key
\* returns the item of every entry stored under that key.
C5_MultiMap ==
    /\ \A i \in 1..Len(sa_keys) : \A o \in 0..(Len(sa_keys[i]) - 1) :
          \E n \in 1..Len(sa_index) :
              sa_index[n].item_id = i - 1 /\ sa_index[n].key_offset = o
    /\ ret.op = "sa_get" =>
          \A i \in 1..Len(sa_keys) : sa_keys[i] = ret.key =>
              ret.kind = "list" /\ Count(ret.val, sa_items[i]) >= 1

\* C6: SuffixArrayMap.get(pattern) returns the empty list, not None and not an
\* exception, when no index token begins with pattern.
C6_EmptyOnNoMatch ==
    (ret.op = "sa_get"
       /\ \A n \in 1..Len(sa_index) : ~StartsWith(sa_index[n].token, ret.key)) =>
        ret.exc = "" /\ ret.kind = "list" /\ ret.val = <<>>

C9_GetFrame ==
    [][ret'.op \in {"sa_get", "rt_get"} =>
          /\ UNCHANGED <<sa_items, sa_keys, sa_index, rt_items, rt_keys, rt_index>>
          /\ ret'.rep => (ret'.exc = ret.exc /\ ret'.kind = ret.kind /\ ret'.val = ret.val)
      ]_vars

\* The same get has run twice in a row on a container that holds entries.
C9_Witness ==
    /\ ret.op = "sa_get" /\ ret.rep
    /\ Len(sa_items) = 2 /\ Len(sa_index) = 1

\* C10: every key given to insert is stored, and the node its segments lead
\* to from the root, one level per segment, carries the key's position in
\* keys as item_id; only a node that ends a key given to insert has an item_id.
C10_Walk ==
    /\ \A i \in 1..Len(rt_calls) :
          \E j \in 1..Len(rt_keys) :
              /\ rt_keys[j] = rt_calls[i].key
              /\ (Root \o Split(rt_calls[i].key)) \in DOMAIN rt_index
              /\ rt_index[Root \o Split(rt_calls[i].key)].item_id = j - 1
    /\ \A p \in DOMAIN rt_index :
          rt_index[p].item_id # NoneVal =>
              \E i \in 1..Len(rt_calls) : Root \o Split(rt_calls[i].key) = p

====
